---------------------------- MODULE Spec2Model ----------------------------
(***************************************************************************)
(* A model of qiling/arch/x86.py: the GDT manager (GDTManager), the        *)
(* segment setup routines of the 32-bit and 64-bit variants, the 64-bit    *)
(* FS/GS MSR path and the register width query of QlArchX8664.             *)
(*                                                                         *)
(* A Python int is modelled as the set of the positions of its 1-bits, so  *)
(* that the 64-bit descriptor word keeps its full width: & is \cap, | is   *)
(* \cup, << and >> move the positions.  Bytes in memory, addresses, slot   *)
(* indexes and selectors are ordinary naturals.                            *)
(***************************************************************************)
EXTENDS Integers, Naturals, Sequences, FiniteSets, TLC

VARIABLES
    bits,        \* QlArch.bits of the session's architecture: 32 or 64
    gdt_number,  \* GDTManager.gdt_number (GDT_ENTRY_ENTRIES)
    gdtr,        \* the GDTR register as written by GDTManager.__init__
    mem,         \* ql.mem contents: address -> byte, for the non-zero bytes
    mapped,      \* ql.mem map_info: the set of mapped pages
    regs,        \* the segment registers cs, ss, ds, es, fs, gs
    msr,         \* the MSR store: FSMSR, GSMSR
    registered,  \* history: slots written by register_gdt_segment since the last set_gdt_buf
    last         \* the last operation: its name, arguments, result and error

vars == <<bits, gdt_number, gdtr, mem, mapped, regs, msr, registered, last>>

(***************************************************************************)
(* Python integers as sets of bit positions.                               *)
(***************************************************************************)
Pow2(k) == 2 ^ k

\* the bits of a natural below 2^31
Bits(n) == {i \in 0..30 : (n \div Pow2(i)) % 2 = 1}

RECURSIVE IntOf(_)
\* the natural a set of bit positions (all below 31) stands for
IntOf(x) == IF x = {} THEN 0
            ELSE LET i == CHOOSE j \in x : TRUE IN Pow2(i) + IntOf(x \ {i})

Mask(k) == 0..(k - 1)
BitAnd(x, y) == x \cap y
BitOr(x, y) == x \cup y
Shl(x, k) == {i + k : i \in x}
Shr(x, k) == {i - k : i \in {j \in x : j >= k}}

\* the byte made of the 8 bits of v from position o on
ByteAt(v, o) ==
      (IF o \in v THEN 1 ELSE 0)       + (IF (o + 1) \in v THEN 2 ELSE 0)
    + (IF (o + 2) \in v THEN 4 ELSE 0) + (IF (o + 3) \in v THEN 8 ELSE 0)
    + (IF (o + 4) \in v THEN 16 ELSE 0) + (IF (o + 5) \in v THEN 32 ELSE 0)
    + (IF (o + 6) \in v THEN 64 ELSE 0) + (IF (o + 7) \in v THEN 128 ELSE 0)

\* struct.pack('<Q', v): the 8 bytes of v, least significant first
pack_Q(v) == [j \in 1..8 |-> ByteAt(v, 8 * (j - 1))]

\* the bits of a byte
ByteBits(b) == IF b = 0 THEN {} ELSE {i \in 0..7 : (b \div Pow2(i)) % 2 = 1}

\* ql.unpack64(bytes): the little-endian value of the 8 bytes
unpack64(b) == UNION {Shl(ByteBits(b[j]), 8 * (j - 1)) : j \in 1..8}

(***************************************************************************)
(* Constants of qiling.arch.x86_const used by x86.py.                      *)
(***************************************************************************)
QL_X86_GDT_ADDR == 196608         \* 0x30000
QL_X86_GDT_LIMIT == 4096          \* 0x1000
QL_X86_F_PROT_32 == 4
QL_X86_A_PRESENT == 128           \* 0x80
QL_X86_A_PRIV_3 == 96             \* 0x60
QL_X86_A_PRIV_0 == 0
QL_X86_A_CODE == 16               \* 0x10
QL_X86_A_DATA == 16               \* 0x10
QL_X86_A_EXEC == 8
QL_X86_A_DATA_WRITABLE == 2
QL_X86_A_CODE_READABLE == 2
QL_X86_A_DIR_CON_BIT == 4
QL_X86_S_GDT == 0
QL_X86_S_PRIV_3 == 3
QL_X86_S_PRIV_0 == 0
FS_SEGMENT_ADDR == 24576          \* 0x6000
FS_SEGMENT_SIZE == 24576          \* 0x6000
GS_SEGMENT_ADDR == 24576          \* 0x6000
GS_SEGMENT_SIZE == 24576          \* 0x6000

\* a | b | ... of flag constants
OrAll(S) == IntOf(UNION {Bits(c) : c \in S})

(***************************************************************************)
(* GDTManager: descriptor and selector encoding.                           *)
(***************************************************************************)
\* a plausible slip: the high limit nibble is not shifted down before masking
_create_gdt_entry_nibble(base, limit, access, flags) ==
    LET r1 == BitAnd(limit, Mask(16))
        r2 == BitOr(r1, Shl(BitAnd(base, Mask(24)), 16))
        r3 == BitOr(r2, Shl(BitAnd(access, Mask(8)), 40))
        r4 == BitOr(r3, Shl(BitAnd(Shr(limit, 12), Mask(4)), 48))
        r5 == BitOr(r4, Shl(BitAnd(flags, Mask(8)), 52))
        r6 == BitOr(r5, Shl(BitAnd(Shr(base, 24), Mask(8)), 56))
    IN  pack_Q(r6)

\* GDTManager._create_gdt_entry
_create_gdt_entry(base, limit, access, flags) ==
    LET r1 == BitAnd(limit, Mask(16))
        r2 == BitOr(r1, Shl(BitAnd(base, Mask(24)), 16))
        r3 == BitOr(r2, Shl(BitAnd(access, Mask(8)), 40))
        r4 == BitOr(r3, Shl(BitAnd(Shr(limit, 16), Mask(4)), 48))
        r5 == BitOr(r4, Shl(BitAnd(flags, Mask(8)), 52))
        r6 == BitOr(r5, Shl(BitAnd(Shr(base, 24), Mask(8)), 56))
    IN  pack_Q(r6)

\* GDTManager._create_selector
_create_selector(idx, flags) == IntOf(BitOr(Bits(flags), Shl(Bits(idx), 3)))

\* GDTManager.create_selector
create_selector(idx, flags) == _create_selector(idx, flags)

(***************************************************************************)
(* The memory subsystem (ql.mem), at page granularity for the map and at   *)
(* byte granularity for the contents of the GDT table.                     *)
(***************************************************************************)
PAGE == 4096

\* the pages that the byte range [addr, addr + size) touches
PagesOf(addr, size) ==
    IF size = 0 THEN {}
    ELSE {p \in (addr \div PAGE)..((addr + size - 1) \div PAGE) : TRUE}

\* ql.mem.is_mapped(addr, size): the whole range is mapped
is_mapped(mp, addr, size) == PagesOf(addr, size) \subseteq mp

\* ql.mem.map(addr, size, info): the range becomes mapped
mem_map(mp, addr, size) == mp \cup PagesOf(addr, size)

\* The contents of memory are kept sparse: mem holds the non-zero bytes, and
\* every other byte of a mapped region reads as 0 (a fresh mapping is zeroed).
\* ql.mem.write(addr, data)
mem_write(m, addr, data) ==
    LET range == addr..(addr + Len(data) - 1)
        kept  == DOMAIN m \ range
        set   == {a \in range : data[a - addr + 1] # 0}
    IN  [a \in kept \cup set |-> IF a \in set THEN data[a - addr + 1] ELSE m[a]]

\* ql.mem.read(addr, size)
mem_read(m, addr, size) ==
    [i \in 1..size |-> IF (addr + i - 1) \in DOMAIN m THEN m[addr + i - 1] ELSE 0]

\* n << k on a natural
Lsh(n, k) == n * Pow2(k)

(***************************************************************************)
(* GDTManager.                                                             *)
(***************************************************************************)
gdt_addr == gdtr[2]
gdt_limit == gdtr[3]

\* GDTManager.__init__ on a fresh session: the state after construction
GDTManager_init(archbits, GDT_ADDR, GDT_LIMIT, GDT_ENTRY_ENTRIES, premapped) ==
    [bits       |-> archbits,
     mapped     |-> IF ~is_mapped(premapped, GDT_ADDR, GDT_LIMIT)
                    THEN mem_map(premapped, GDT_ADDR, GDT_LIMIT)
                    ELSE premapped,
     gdtr       |-> <<0, GDT_ADDR, GDT_LIMIT, 0>>,
     gdt_number |-> GDT_ENTRY_ENTRIES,
     mem        |-> [a \in {} |-> 0]]

\* a plausible slip: the descriptor's flags are taken from the caller's RPORT
register_gdt_segment_rport(index, SEGMENT_ADDR, SEGMENT_SIZE, SPORT, RPORT) ==
    LET mp1 == IF index \in {14, 15}
                  /\ ~is_mapped(mapped, IntOf(SEGMENT_ADDR), IntOf(SEGMENT_ADDR))
               THEN mem_map(mapped, IntOf(SEGMENT_ADDR), IntOf(SEGMENT_ADDR))
               ELSE mapped
    IN  IF index < 0 \/ index >= gdt_number
        THEN [mapped |-> mp1, mem |-> mem, err |-> "QlGDTError"]
        ELSE [mapped |-> mp1,
              mem    |-> mem_write(mem, gdt_addr + Lsh(index, 3),
                             _create_gdt_entry(SEGMENT_ADDR, SEGMENT_SIZE, SPORT, RPORT)),
              err    |-> ""]

\* GDTManager.register_gdt_segment: the memory map and the table after the
\* call, and the error it raised ("" when it returned)
register_gdt_segment(index, SEGMENT_ADDR, SEGMENT_SIZE, SPORT, RPORT) ==
    LET mp1 == IF index \in {14, 15}
                  /\ ~is_mapped(mapped, IntOf(SEGMENT_ADDR), IntOf(SEGMENT_ADDR))
               THEN mem_map(mapped, IntOf(SEGMENT_ADDR), IntOf(SEGMENT_ADDR))
               ELSE mapped
    IN  IF index < 0 \/ index >= gdt_number
        THEN [mapped |-> mp1, mem |-> mem, err |-> "QlGDTError"]
        ELSE [mapped |-> mp1,
              mem    |-> mem_write(mem, gdt_addr + Lsh(index, 3),
                             _create_gdt_entry(SEGMENT_ADDR, SEGMENT_SIZE, SPORT, Bits(QL_X86_F_PROT_32))),
              err    |-> ""]

\* GDTManager.get_gdt_buf
get_gdt_buf(start, end) ==
    mem_read(mem, gdt_addr + Lsh(start, 3), Lsh(end, 3) - Lsh(start, 3))

\* buf[ : n] for n >= 0
Prefix(buf, n) == SubSeq(buf, 1, IF n < Len(buf) THEN n ELSE Len(buf))

\* GDTManager.set_gdt_buf: the table after the call
set_gdt_buf(start, end, buf) ==
    mem_write(mem, gdt_addr + Lsh(start, 3), Prefix(buf, Lsh(end, 3) - Lsh(start, 3)))

RECURSIVE free_idx_loop(_, _)
\* the loop of GDTManager.get_free_idx: for i in range(i, end)
free_idx_loop(i, end) ==
    IF i >= end THEN -1
    ELSE IF unpack64(mem_read(mem, gdt_addr + Lsh(i, 3), 8)) = {} THEN i
    ELSE free_idx_loop(i + 1, end)

\* a plausible slip: the scan starts one slot late
get_free_idx_late(start, end) ==
    free_idx_loop(start + 1, IF end = -1 THEN gdt_number ELSE end)

\* GDTManager.get_free_idx; an omitted end is the default -1
get_free_idx(start, end) ==
    free_idx_loop(start, IF end = -1 THEN gdt_number ELSE end)

(***************************************************************************)
(* Segment setup routines.                                                 *)
(***************************************************************************)
\* the shape every routine shares: one register_gdt_segment call, then the
\* segment registers are written unless the call raised
Routine(index, base, size, access, rport, regs1) ==
    LET r == register_gdt_segment(index, base, size, access, rport)
    IN  [mapped |-> r.mapped, mem |-> r.mem, err |-> r.err,
         regs   |-> IF r.err = "" THEN regs1 ELSE regs,
         call   |-> [index |-> index, base |-> base, size |-> size,
                     access |-> access, flags |-> rport]]

LIMIT_32 == 12..31      \* 0xfffff000
LIMIT_64 == 12..63      \* 0xfffffffffffff000

CODE_ACCESS == OrAll({QL_X86_A_PRESENT, QL_X86_A_CODE, QL_X86_A_CODE_READABLE,
                      QL_X86_A_PRIV_3, QL_X86_A_EXEC, QL_X86_A_DIR_CON_BIT})
DATA0_ACCESS == OrAll({QL_X86_A_PRESENT, QL_X86_A_DATA, QL_X86_A_DATA_WRITABLE,
                       QL_X86_A_PRIV_0, QL_X86_A_DIR_CON_BIT})
DATA3_ACCESS == OrAll({QL_X86_A_PRESENT, QL_X86_A_DATA, QL_X86_A_DATA_WRITABLE,
                       QL_X86_A_PRIV_3, QL_X86_A_DIR_CON_BIT})
SEL_GDT_3 == OrAll({QL_X86_S_GDT, QL_X86_S_PRIV_3})
SEL_GDT_0 == OrAll({QL_X86_S_GDT, QL_X86_S_PRIV_0})

\* a plausible slip: the 32-bit routine uses the slot of the 64-bit one
ql_x86_register_cs_slot6 ==
    Routine(6, Bits(0), LIMIT_32, Bits(CODE_ACCESS), Bits(SEL_GDT_3),
            [regs EXCEPT !.cs = create_selector(6, SEL_GDT_3)])

ql_x86_register_cs ==
    Routine(3, Bits(0), LIMIT_32, Bits(CODE_ACCESS), Bits(SEL_GDT_3),
            [regs EXCEPT !.cs = create_selector(3, SEL_GDT_3)])

ql_x8664_register_cs ==
    Routine(6, Bits(0), LIMIT_64, Bits(CODE_ACCESS), Bits(SEL_GDT_3),
            [regs EXCEPT !.cs = create_selector(6, SEL_GDT_3)])

ql_x86_register_ds_ss_es ==
    Routine(5, Bits(0), LIMIT_32, Bits(DATA0_ACCESS), Bits(SEL_GDT_0),
            [regs EXCEPT !.ds = create_selector(5, SEL_GDT_0),
                         !.ss = create_selector(5, SEL_GDT_0),
                         !.es = create_selector(5, SEL_GDT_0)])

ql_x8664_register_ds_ss_es ==
    Routine(5, Bits(0), LIMIT_32, Bits(DATA0_ACCESS), Bits(SEL_GDT_0),
            [regs EXCEPT !.ss = create_selector(5, SEL_GDT_0)])

ql_x86_register_gs ==
    Routine(15, Bits(GS_SEGMENT_ADDR), Bits(GS_SEGMENT_SIZE), Bits(DATA3_ACCESS), Bits(SEL_GDT_3),
            [regs EXCEPT !.gs = create_selector(15, SEL_GDT_0)])

ql_x86_register_fs ==
    Routine(14, Bits(FS_SEGMENT_ADDR), Bits(FS_SEGMENT_SIZE), Bits(DATA3_ACCESS), Bits(SEL_GDT_3),
            [regs EXCEPT !.fs = create_selector(14, SEL_GDT_3)])

(***************************************************************************)
(* The 64-bit FS/GS base path through the MSR manager.                     *)
(***************************************************************************)
\* QlMsrManager.write / QlMsrManager.read
msr_write(m, key, value) == [m EXCEPT ![key] = value]
msr_read(m, key) == m[key]

\* a plausible slip: the GS region is never mapped
ql_x8664_set_gs_nomap ==
    [mapped |-> mapped, msr |-> msr_write(msr, "GSMSR", GS_SEGMENT_ADDR)]

ql_x8664_set_gs ==
    [mapped |-> IF ~is_mapped(mapped, GS_SEGMENT_ADDR, GS_SEGMENT_SIZE)
                THEN mem_map(mapped, GS_SEGMENT_ADDR, GS_SEGMENT_SIZE)
                ELSE mapped,
     msr    |-> msr_write(msr, "GSMSR", GS_SEGMENT_ADDR)]

ql_x8664_get_gs == msr_read(msr, "GSMSR")

ql_x8664_set_fs(addr) ==
    [mapped |-> mapped, msr |-> msr_write(msr, "FSMSR", addr)]

ql_x8664_get_fs == msr_read(msr, "FSMSR")

(***************************************************************************)
(* QlArchX8664: the register map and the width query.  A table of          *)
(* x86_const maps a register name to its engine identifier.                *)
(***************************************************************************)
UcReg(name) == <<"UC_X86_REG", name>>
RegTable(names) == [n \in names |-> UcReg(n)]
Values(t) == {t[n] : n \in DOMAIN t}

UC_X86_REG_EFLAGS == UcReg("eflags")

reg_map_8 == RegTable({"ah", "al", "ch", "cl", "dh", "dl", "bh", "bl"})
reg_map_16 == RegTable({"ax", "cx", "dx", "bx", "sp", "bp", "si", "di", "ip"})
reg_map_32 == RegTable({"eax", "ecx", "edx", "ebx", "esp", "ebp", "esi", "edi", "eip"})
reg_map_64 == RegTable({"rax", "rbx", "rcx", "rdx", "rsi", "rdi", "rbp", "rsp", "rip",
                        "r8", "r9", "r10", "r11", "r12", "r13", "r14", "r15"})
reg_map_cr == RegTable({"cr0", "cr1", "cr2", "cr3", "cr4"})
reg_map_st == RegTable({"st0", "st1", "st2", "st3", "st4", "st5", "st6", "st7"})
reg_map_misc == RegTable({"eflags", "cs", "ss", "ds", "es", "fs", "gs"})
reg_map_64_b == RegTable({"r8b", "r9b", "r10b", "r11b", "r12b", "r13b", "r14b", "r15b"})
reg_map_64_w == RegTable({"r8w", "r9w", "r10w", "r11w", "r12w", "r13w", "r14w", "r15w"})
reg_map_64_d == RegTable({"r8d", "r9d", "r10d", "r11d", "r12d", "r13d", "r14d", "r15d"})
reg_map_seg_base == RegTable({"fsbase", "gsbase"})

\* dict(**a, **b, ...) of tables with distinct names
Merge(tables) ==
    [n \in UNION {DOMAIN tables[i] : i \in DOMAIN tables} |->
        LET i == CHOOSE k \in DOMAIN tables : n \in DOMAIN tables[k] IN tables[i][n]]

\* QlArchX8664.regs: the register_mapping of the 64-bit variant
register_mapping ==
    Merge(<<reg_map_8, reg_map_16, reg_map_32, reg_map_64, reg_map_cr, reg_map_st,
            reg_map_misc, reg_map_64_b, reg_map_64_w, reg_map_64_d, reg_map_seg_base>>)

\* the tables __reg_bits consults, in order, with the width of each
regmaps ==
    << <<reg_map_8, 8>>, <<reg_map_16, 16>>, <<reg_map_32, 32>>, <<reg_map_64, 64>>,
       <<reg_map_misc, 16>>, <<reg_map_cr, 64>>, <<reg_map_st, 32>>,
       <<reg_map_seg_base, 64>> >>

RECURSIVE first_regmap(_, _)
\* next((rsize for rmap, rsize in regmaps[i:] if register in rmap.values()), 0)
first_regmap(register, i) ==
    IF i > Len(regmaps) THEN 0
    ELSE IF register \in Values(regmaps[i][1]) THEN regmaps[i][2]
    ELSE first_regmap(register, i + 1)

\* QlArchX8664.__reg_bits
__reg_bits(register) ==
    IF register = UC_X86_REG_EFLAGS THEN 32 ELSE first_regmap(register, 1)

\* QlArchX8664.reg_bits: a name is resolved through the register map first
reg_bits(reg) ==
    IF reg.type = "str"
    THEN IF reg.v \in DOMAIN register_mapping
         THEN [ret |-> __reg_bits(register_mapping[reg.v]), err |-> ""]
         ELSE [ret |-> "None", err |-> "KeyError"]
    ELSE [ret |-> __reg_bits(reg.v), err |-> ""]

(***************************************************************************)
(* The inputs the operations are called with.                              *)
(***************************************************************************)
MaxSlot == 0        \* the low slots 0..MaxSlot are registered, written and scanned
MaxAddrPage == 2    \* the loader maps, and set_fs is given, pages 1..MaxAddrPage

ArchBits == {32, 64}
GdtSizes == {14, 16}
SlotArgs == {-1} \cup (0..MaxSlot) \cup {14, 15, 16}

\* (base, size, access, flags) of a register_gdt_segment call
SegmentArgs ==
    { [base |-> Bits(0), size |-> Bits(0), access |-> Bits(0), flags |-> Bits(0)],
      [base |-> Bits(PAGE), size |-> Bits(18 * PAGE), access |-> Bits(DATA3_ACCESS),
       flags |-> Bits(SEL_GDT_3)] }

Zero8 == [i \in 1..8 |-> 0]
Junk16 == [i \in 1..16 |-> IF i \in {1, 9} THEN 1 ELSE 0]
BufArgs == {Zero8, Junk16}

NoOp == [op |-> "", args |-> <<>>, ret |-> "None", err |-> ""]

\* a session of the given architecture whose GDTManager has been constructed
Constructed(b, n, l) ==
    LET g == GDTManager_init(b, QL_X86_GDT_ADDR, QL_X86_GDT_LIMIT, n, {})
    IN  /\ bits = g.bits
        /\ gdt_number = g.gdt_number
        /\ gdtr = g.gdtr
        /\ mem = g.mem
        /\ mapped = g.mapped
        /\ regs = [r \in {"cs", "ss", "ds", "es", "fs", "gs"} |-> 0]
        /\ msr = [k \in {"FSMSR", "GSMSR"} |-> 0]
        /\ registered = {}
        /\ last = l

Init == \E n \in GdtSizes : Constructed(32, n, NoOp)

InitSetup == \E b \in ArchBits, n \in GdtSizes : Constructed(b, n, NoOp)

(***************************************************************************)
(* One action per operation.                                               *)
(***************************************************************************)
Call_register_gdt_segment ==
    \E index \in SlotArgs, v \in SegmentArgs :
        LET r == register_gdt_segment(index, v.base, v.size, v.access, v.flags)
        IN  /\ mapped' = r.mapped
            /\ mem' = r.mem
            /\ registered' = IF r.err = "" THEN registered \cup {index} ELSE registered
            /\ last' = [op |-> "register_gdt_segment",
                        args |-> [index |-> index, base |-> v.base, size |-> v.size,
                                  access |-> v.access, flags |-> v.flags],
                        ret |-> "None", err |-> r.err]
            /\ UNCHANGED <<bits, gdt_number, gdtr, regs, msr>>

Call_get_gdt_buf ==
    \E start \in 0..MaxSlot :
        /\ last' = [op |-> "get_gdt_buf", args |-> [start |-> start, end |-> start + 1],
                    ret |-> get_gdt_buf(start, start + 1), err |-> ""]
        /\ UNCHANGED <<bits, gdt_number, gdtr, mem, mapped, regs, msr, registered>>

Call_set_gdt_buf ==
    \E end \in 0..(MaxSlot + 1), buf \in BufArgs :
        /\ mem' = set_gdt_buf(0, end, buf)
        /\ registered' = {}
        /\ last' = [op |-> "set_gdt_buf", args |-> [start |-> 0, end |-> end, buf |-> buf],
                    ret |-> "None", err |-> ""]
        /\ UNCHANGED <<bits, gdt_number, gdtr, mapped, regs, msr>>

Call_get_free_idx ==
    \E a \in {<<0, -1>>, <<1, -1>>, <<0, MaxSlot + 1>>} :
        /\ last' = [op |-> "get_free_idx", args |-> [start |-> a[1], end |-> a[2]],
                    ret |-> get_free_idx(a[1], a[2]), err |-> ""]
        /\ UNCHANGED <<bits, gdt_number, gdtr, mem, mapped, regs, msr, registered>>

Call_create_selector ==
    \E idx \in {3, 15}, flags \in {SEL_GDT_0, SEL_GDT_3} :
        /\ last' = [op |-> "create_selector", args |-> [idx |-> idx, flags |-> flags],
                    ret |-> create_selector(idx, flags), err |-> ""]
        /\ UNCHANGED <<bits, gdt_number, gdtr, mem, mapped, regs, msr, registered>>

\* a setup routine has run: its register_gdt_segment call is recorded
Setup(name, r) ==
    /\ mapped' = r.mapped
    /\ mem' = r.mem
    /\ regs' = r.regs
    /\ registered' = IF r.err = "" THEN registered \cup {r.call.index} ELSE registered
    /\ last' = [op |-> name, args |-> r.call, ret |-> "None", err |-> r.err]
    /\ UNCHANGED <<bits, gdt_number, gdtr, msr>>

Call_ql_x86_register_cs ==
    bits = 32 /\ Setup("ql_x86_register_cs", ql_x86_register_cs)
Call_ql_x86_register_ds_ss_es ==
    bits = 32 /\ Setup("ql_x86_register_ds_ss_es", ql_x86_register_ds_ss_es)
Call_ql_x86_register_gs ==
    bits = 32 /\ Setup("ql_x86_register_gs", ql_x86_register_gs)
Call_ql_x86_register_fs ==
    bits = 32 /\ Setup("ql_x86_register_fs", ql_x86_register_fs)
Call_ql_x8664_register_cs ==
    bits = 64 /\ Setup("ql_x8664_register_cs", ql_x8664_register_cs)
Call_ql_x8664_register_ds_ss_es ==
    bits = 64 /\ Setup("ql_x8664_register_ds_ss_es", ql_x8664_register_ds_ss_es)

Call_ql_x8664_set_gs ==
    /\ bits = 64
    /\ mapped' = ql_x8664_set_gs.mapped
    /\ msr' = ql_x8664_set_gs.msr
    /\ last' = [op |-> "ql_x8664_set_gs", args |-> <<>>, ret |-> "None", err |-> ""]
    /\ UNCHANGED <<bits, gdt_number, gdtr, mem, regs, registered>>

Call_ql_x8664_get_gs ==
    /\ bits = 64
    /\ last' = [op |-> "ql_x8664_get_gs", args |-> <<>>, ret |-> ql_x8664_get_gs, err |-> ""]
    /\ UNCHANGED <<bits, gdt_number, gdtr, mem, mapped, regs, msr, registered>>

Call_ql_x8664_set_fs ==
    \E k \in 1..MaxAddrPage :
        /\ bits = 64
        /\ mapped' = ql_x8664_set_fs(k * PAGE).mapped
        /\ msr' = ql_x8664_set_fs(k * PAGE).msr
        /\ last' = [op |-> "ql_x8664_set_fs", args |-> [addr |-> k * PAGE],
                    ret |-> "None", err |-> ""]
        /\ UNCHANGED <<bits, gdt_number, gdtr, mem, regs, registered>>

Call_ql_x8664_get_fs ==
    /\ bits = 64
    /\ last' = [op |-> "ql_x8664_get_fs", args |-> <<>>, ret |-> ql_x8664_get_fs, err |-> ""]
    /\ UNCHANGED <<bits, gdt_number, gdtr, mem, mapped, regs, msr, registered>>

\* the loader maps a page that is still free
Loader_map ==
    \E k \in 1..MaxAddrPage :
        /\ ~is_mapped(mapped, k * PAGE, PAGE)
        /\ mapped' = mem_map(mapped, k * PAGE, PAGE)
        /\ last' = [op |-> "mem.map", args |-> [addr |-> k * PAGE, size |-> PAGE],
                    ret |-> "None", err |-> ""]
        /\ UNCHANGED <<bits, gdt_number, gdtr, mem, regs, msr, registered>>

\* the GDT manager as the OS layer drives it
Next ==
    \/ Call_register_gdt_segment
    \/ Call_get_gdt_buf
    \/ Call_set_gdt_buf
    \/ Call_get_free_idx

Spec == Init /\ [][Next]_vars

\* the segment setup routines and the 64-bit FS/GS path on a constructed manager
NextSetup ==
    \/ Call_create_selector
    \/ Call_ql_x86_register_cs
    \/ Call_ql_x86_register_ds_ss_es
    \/ Call_ql_x86_register_gs
    \/ Call_ql_x86_register_fs
    \/ Call_ql_x8664_register_cs
    \/ Call_ql_x8664_register_ds_ss_es
    \/ Call_ql_x8664_set_gs
    \/ Call_ql_x8664_get_gs
    \/ Call_ql_x8664_set_fs
    \/ Call_ql_x8664_get_fs
    \/ Loader_map

SpecSetup == InitSetup /\ [][NextSetup]_vars

(***************************************************************************)
(* The descriptor encoder on its own: the inputs are drawn first, then the *)
(* encoder is applied.  A field's value is any set of the probed bit       *)
(* positions: both sides of every split of the layout, and one bit beyond  *)
(* the field's width.                                                      *)
(***************************************************************************)
BaseProbes == {0, 23, 24, 31, 32}
LimitProbes == {15, 16, 19, 20}
AccessProbes == {7, 8}
FlagsProbes == {0, 3, 4}

EncArgs ==
    [base : SUBSET BaseProbes, limit : SUBSET LimitProbes,
     access : SUBSET AccessProbes, flags : SUBSET FlagsProbes]

InitEnc ==
    \E a \in EncArgs :
        Constructed(32, 16, [op |-> "", args |-> a, ret |-> "None", err |-> ""])

Call__create_gdt_entry ==
    /\ last.op = ""
    /\ last' = [last EXCEPT !.op = "_create_gdt_entry",
                            !.ret = _create_gdt_entry(last.args.base, last.args.limit,
                                                      last.args.access, last.args.flags)]
    /\ UNCHANGED <<bits, gdt_number, gdtr, mem, mapped, regs, msr, registered>>

NextEnc == Call__create_gdt_entry

SpecEnc == InitEnc /\ [][NextEnc]_vars

(***************************************************************************)
(* The width query on its own: a name or an identifier is drawn, then      *)
(* reg_bits is applied.                                                    *)
(***************************************************************************)
NameArgs == DOMAIN register_mapping \cup {"xmm0"}
IdArgs == Values(register_mapping) \cup {UcReg("xmm0")}

InitRegs ==
    \/ \E n \in NameArgs :
           Constructed(64, 16, [op |-> "", args |-> [type |-> "str", v |-> n],
                                ret |-> "None", err |-> ""])
    \/ \E r \in IdArgs :
           Constructed(64, 16, [op |-> "", args |-> [type |-> "int", v |-> r],
                                ret |-> "None", err |-> ""])

Call_reg_bits ==
    /\ last.op = ""
    /\ last' = [last EXCEPT !.op = "reg_bits",
                            !.ret = reg_bits(last.args).ret,
                            !.err = reg_bits(last.args).err]
    /\ UNCHANGED <<bits, gdt_number, gdtr, mem, mapped, regs, msr, registered>>

NextRegs == Call_reg_bits

SpecRegs == InitRegs /\ [][NextRegs]_vars

(***************************************************************************)
(* What the contract says, in its own words: the packed layout of a        *)
(* descriptor, its decoding, and the slots of the table.                   *)
(***************************************************************************)
\* the 8 bytes of slot i
SlotBytes(i) == mem_read(mem, gdt_addr + 8 * i, 8)

\* the 64-bit word that 8 little-endian bytes hold
WordOf(b) ==
    {8 * (jk[1] - 1) + jk[2] :
        jk \in {x \in (1..8) \X (0..7) : (b[x[1]] \div Pow2(x[2])) % 2 = 1}}

\* the packed layout: limit in bits [0,16) and [48,52), base in [16,40) and
\* [56,64), access in [40,48), flags from bit 52
Layout(base, limit, access, flags) ==
    (limit \cap (0..15)) \cup {i + 16 : i \in base \cap (0..23)}
    \cup {i + 40 : i \in access \cap (0..7)} \cup {i + 32 : i \in limit \cap (16..19)}
    \cup {i + 52 : i \in flags \cap (0..7)} \cup {i + 32 : i \in base \cap (24..31)}

DecLimit(w) == (w \cap (0..15)) \cup {i - 32 : i \in w \cap (48..51)}
DecBase(w) == {i - 16 : i \in w \cap (16..39)} \cup {i - 32 : i \in w \cap (56..63)}
DecAccess(w) == {i - 40 : i \in w \cap (40..47)}
DecFlags(w) == {i - 52 : i \in w \cap (52..55)}

IsFree(i) == LET b == SlotBytes(i) IN \A j \in 1..8 : b[j] = 0

\* the all-zero slots of the table
FreeSlots == {i \in 0..(gdt_number - 1) : IsFree(i)}

\* the smallest slot of [s, e) among the slots F, or -1
FirstIn(F, s, e) ==
    LET Z == F \cap (s..(e - 1))
    IN  IF Z = {} THEN -1 ELSE CHOOSE i \in Z : \A k \in Z : i <= k

\* the smallest free slot of [s, e), or -1
FirstFree(s, e) == FirstIn(FreeSlots, s, e)

Registers == last.op = "register_gdt_segment"
OutOfRange(index) == index < 0 \/ index >= gdt_number

(***************************************************************************)
(* C1: a register_segment call whose index is outside [0, entry_count)     *)
(* fails with the index-range error and leaves the whole state unchanged:  *)
(* no GDT byte is written and no memory region is newly mapped.            *)
(***************************************************************************)
C1_RangeErrorStep ==
    (last'.op = "register_gdt_segment" /\ OutOfRange(last'.args.index))
        => (last'.err = "QlGDTError" /\ mem' = mem /\ mapped' = mapped)

\* C1: every register_segment step failing with the index-range error leaves
\* the GDT bytes and the set of mapped regions unchanged.
C1_RangeErrorChangesNothing == [][C1_RangeErrorStep]_vars

(***************************************************************************)
(* C2, as claimed: after a successful register_segment the 8 bytes of the  *)
(* slot are the layout of (segment_base, segment_size, access_byte, the    *)
(* caller's flags argument).                                               *)
(***************************************************************************)
C2_CallerFlagsEncoded ==
    (Registers /\ last.err = "")
        => WordOf(SlotBytes(last.args.index))
           = Layout(last.args.base, last.args.size, last.args.access, last.args.flags)

(***************************************************************************)
(* C2, amended: after a successful register_segment the 8 bytes of the     *)
(* slot are the layout of (segment_base, segment_size, access_byte,        *)
(* QL_X86_F_PROT_32), whatever the caller's flags argument is.             *)
(***************************************************************************)
C2_Prot32FlagsEncoded ==
    (Registers /\ last.err = "")
        => WordOf(SlotBytes(last.args.index))
           = Layout(last.args.base, last.args.size, last.args.access,
                    Bits(QL_X86_F_PROT_32))

C2_Witness ==
    /\ Registers /\ last.err = ""
    /\ last.args.flags # Bits(QL_X86_F_PROT_32)
    /\ last.args.base # {} /\ last.args.size \cap (16..19) # {}

(***************************************************************************)
(* C3: for base < 2^32, limit < 2^20, access < 2^8 and flags < 2^4,        *)
(* decoding the word the encoder produced gives back the four fields.      *)
(***************************************************************************)
InRange(a) ==
    /\ a.base \subseteq 0..31 /\ a.limit \subseteq 0..19
    /\ a.access \subseteq 0..7 /\ a.flags \subseteq 0..3

\* C3: for in-range fields, decoding the encoder's 64-bit word by the layout
\* returns the base, limit, access byte and flags that were encoded.
C3_RoundTrip ==
    (last.op = "_create_gdt_entry" /\ InRange(last.args))
        => LET w == WordOf(last.ret)
           IN  /\ DecBase(w) = last.args.base
               /\ DecLimit(w) = last.args.limit
               /\ DecAccess(w) = last.args.access
               /\ DecFlags(w) = last.args.flags

C3_Witness ==
    /\ last.op = "_create_gdt_entry"
    /\ last.args = [base |-> {0, 23, 24, 31}, limit |-> {15, 16, 19},
                    access |-> {7}, flags |-> {0, 3}]

(***************************************************************************)
(* C4, as claimed: on a 16-entry GDT, after the 32-bit code-segment setup, *)
(* the 8 bytes at base_address + 24 decode to base 0, limit 0xFFFFF000 and *)
(* the access byte that was passed in.                                     *)
(***************************************************************************)
C4_DecodesFullLimit ==
    (last.op = "ql_x86_register_cs" /\ gdt_number = 16)
        => LET w == WordOf(mem_read(mem, gdt_addr + 24, 8))
           IN  /\ DecBase(w) = {}
               /\ DecLimit(w) = 12..31
               /\ DecAccess(w) = last.args.access

(***************************************************************************)
(* C4, amended: on a 16-entry GDT, after the 32-bit code-segment setup     *)
(* (slot 3, base 0, limit 0xFFFFF000), the 8 bytes at base_address + 24    *)
(* decode to base 0, limit 0xFF000 (the low 20 bits of 0xFFFFF000) and the *)
(* access byte that was passed in.                                         *)
(***************************************************************************)
C4_DecodesLow20Limit ==
    (last.op = "ql_x86_register_cs" /\ gdt_number = 16)
        => LET w == WordOf(mem_read(mem, gdt_addr + 24, 8))
           IN  /\ last.err = ""
               /\ last.args.base = {} /\ last.args.size = 12..31
               /\ DecBase(w) = {}
               /\ DecLimit(w) = 12..19
               /\ DecAccess(w) = last.args.access
               /\ last.args.access # {}

C4_Witness == last.op = "ql_x86_register_cs" /\ gdt_number = 16 /\ last.err = ""

(***************************************************************************)
(* C5: for every table content and every 0 <= start <= end <= entry_count, *)
(* find_free_slot(start, end) is the smallest all-zero slot of             *)
(* [start, end), or -1 when there is none; with end omitted the range is   *)
(* [start, entry_count); and the call never modifies the table.            *)
(***************************************************************************)
C5_Scan ==
    LET F == FreeSlots
    IN  /\ \A s \in 0..gdt_number :
              /\ get_free_idx(s, -1) = FirstIn(F, s, gdt_number)
              /\ \A e \in s..gdt_number : get_free_idx(s, e) = FirstIn(F, s, e)
        /\ last.op = "get_free_idx"
              => last.ret = FirstIn(F, last.args.start,
                                    IF last.args.end = -1 THEN gdt_number ELSE last.args.end)

C5_ReadOnly == last'.op = "get_free_idx" => (mem' = mem /\ mapped' = mapped)

\* C5: find_free_slot returns the smallest all-zero slot of the range, or -1,
\* in every state, and no find_free_slot step modifies the table.
C5_FreeSlot == [](C5_Scan) /\ [][C5_ReadOnly]_vars

C5_Witness ==
    /\ last.op = "get_free_idx" /\ last.args = [start |-> 0, end |-> -1]
    /\ ~IsFree(0) /\ last.ret = 1

(***************************************************************************)
(* C6: after a successful register_segment on slot 14 or 15 the segment's  *)
(* own region [segment_base, segment_base + segment_size) is mapped.       *)
(***************************************************************************)
C6_SegmentRegionMapped ==
    (Registers /\ last.err = "" /\ last.args.index \in {14, 15})
        => is_mapped(mapped, IntOf(last.args.base), IntOf(last.args.size))

(***************************************************************************)
(* C7, as claimed: in 64-bit mode, after set_gs and after set_fs the       *)
(* target region is mapped and get_gs / get_fs return the base that was    *)
(* set.  For set_fs the target is taken to be no more than the byte at the *)
(* base address.                                                           *)
(***************************************************************************)
C7_BothMapTheTarget ==
    /\ last.op = "ql_x8664_set_gs"
          => /\ is_mapped(mapped, GS_SEGMENT_ADDR, GS_SEGMENT_SIZE)
             /\ ql_x8664_get_gs = GS_SEGMENT_ADDR
    /\ last.op = "ql_x8664_set_fs"
          => /\ is_mapped(mapped, last.args.addr, 1)
             /\ ql_x8664_get_fs = last.args.addr

(***************************************************************************)
(* C7, amended: in 64-bit mode, set_gs maps the GS region when it is not   *)
(* yet mapped and stores GS_SEGMENT_ADDR in the GS MSR; set_fs stores the  *)
(* caller's address in the FS MSR and maps nothing; neither writes a GDT   *)
(* byte; afterwards get_gs / get_fs return the base that was set, and      *)
(* after set_gs the GS region is mapped.                                   *)
(***************************************************************************)
C7_After ==
    /\ last.op = "ql_x8664_set_gs"
          => /\ is_mapped(mapped, GS_SEGMENT_ADDR, GS_SEGMENT_SIZE)
             /\ ql_x8664_get_gs = GS_SEGMENT_ADDR
    /\ last.op = "ql_x8664_set_fs" => ql_x8664_get_fs = last.args.addr

C7_Step ==
    /\ last'.op \in {"ql_x8664_set_gs", "ql_x8664_set_fs"} => mem' = mem
    /\ last'.op = "ql_x8664_set_fs" => mapped' = mapped
    /\ last'.op = "ql_x8664_set_gs"
          => mapped' = mapped \cup PagesOf(GS_SEGMENT_ADDR, GS_SEGMENT_SIZE)

\* C7, amended: the MSR path as stated above, in every state after set_gs,
\* set_fs, get_gs or get_fs, and over every such step.
C7_MsrPath == [](C7_After) /\ [][C7_Step]_vars

C7_Witness ==
    /\ last.op = "ql_x8664_set_gs"
    /\ is_mapped(mapped, GS_SEGMENT_ADDR, GS_SEGMENT_SIZE)
    /\ msr["FSMSR"] = PAGE /\ ~is_mapped(mapped, PAGE, 1)
    /\ DOMAIN mem # {}

(***************************************************************************)
(* C8: on the 64-bit variant width_of is non-zero for every identifier of  *)
(* every table of the register map, 32 for the flags register, and 0 only  *)
(* for identifiers of none of the tables.                                  *)
(***************************************************************************)
C8_EveryMappedRegisterHasWidth ==
    (last.op = "reg_bits" /\ last.err = "")
        => LET id == IF last.args.type = "str" THEN register_mapping[last.args.v]
                     ELSE last.args.v
           IN  /\ id \in Values(register_mapping) => last.ret # 0
               /\ id = UC_X86_REG_EFLAGS => last.ret = 32
               /\ last.ret = 0 => id \notin Values(register_mapping)

(***************************************************************************)
(* C9: every segment setup routine writes into its segment register(s)     *)
(* make_selector(slot, flags) of the slot and the flags it passed to       *)
(* register_segment.                                                       *)
(***************************************************************************)
SegmentRegsOf(op) ==
    CASE op = "ql_x86_register_cs" -> {"cs"}
      [] op = "ql_x8664_register_cs" -> {"cs"}
      [] op = "ql_x86_register_ds_ss_es" -> {"ds", "ss", "es"}
      [] op = "ql_x8664_register_ds_ss_es" -> {"ss"}
      [] op = "ql_x86_register_fs" -> {"fs"}
      [] op = "ql_x86_register_gs" -> {"gs"}
      [] OTHER -> {}

\* C9: after a setup routine, each segment register it loads holds
\* make_selector(slot, flags) of its own register_segment call.
C9_SelectorOfOwnRegistration ==
    last.err = ""
        => \A seg \in SegmentRegsOf(last.op) :
              regs[seg] = 8 * last.args.index + IntOf(last.args.flags)

(***************************************************************************)
(* C10: with no write_region in between, find_free_slot never returns a    *)
(* slot that an earlier successful register_segment call wrote, whatever   *)
(* the arguments of that call were (all-zero arguments included).          *)
(***************************************************************************)
C10_RegisteredNeverFree ==
    /\ last.op = "get_free_idx" => last.ret \notin registered
    /\ \A i \in registered : get_free_idx(i, i + 1) = -1 /\ get_free_idx(i, -1) # i

C10_Witness ==
    /\ last.op = "get_free_idx" /\ last.args.start = 0 /\ last.ret = 1
    /\ 0 \in registered
    /\ SlotBytes(0) = <<0, 0, 0, 0, 0, 0, 64, 0>>

=============================================================================
